---- MODULE Spec2Model ----
(***************************************************************************)
(* Model of backend/main.py: the /chat endpoint (chat_handler), the        *)
(* log_performance_metrics middleware wrapped around it and the metrics    *)
(* accumulator created by startup_event.  rq holds the requests, metrics   *)
(* is app.state.metrics, and services is what stubbed external services    *)
(* have answered so far (empty where the services answer freely).          *)
(*                                                                         *)
(* Text is a sequence of one-character strings, so that lower(), strip(),  *)
(* join() and the substring test are computed as Python computes them.     *)
(* A similarity score s is held as the integer 100 * s (0.45 is 45).       *)
(***************************************************************************)
EXTENDS Integers, Sequences, FiniteSets, TLC

VARIABLES rq, metrics, services

vars == <<rq, metrics, services>>

(***************************************************************************)
(* Bounds of the model.                                                    *)
(***************************************************************************)
\* most passages the provider returns for one search in the model
MaxDocs == 2
\* longest question drawn for the classifier specification
MaxLen == 3
\* requests the server specification handles
NumRequests == 3

(***************************************************************************)
(* Program constants.                                                      *)
(***************************************************************************)
score_threshold == 45
fallback_threshold == 40
k == 4

COMPANY_NAMESPACE == "company-internal-docs"
STANDARDS_NAMESPACE == "iso-nist-standards"

conversational_phrases ==
    { <<"h", "e", "l", "l", "o">>,
      <<"h", "i">>,
      <<"h", "e", "y">>,
      <<"y", "o">>,
      <<"h", "a", "i">>,
      <<"h", "o", "w", " ", "a", "r", "e", " ", "y", "o", "u">>,
      <<"h", "o", "w", " ", "a", "r", "e", " ", "y", "o", "u", " ", "d", "o", "i", "n", "g">>,
      <<"w", "h", "a", "t", "'", "s", " ", "u", "p">>,
      <<"t", "h", "a", "n", "k", " ", "y", "o", "u">>,
      <<"t", "h", "a", "n", "k", "s">>,
      <<"t", "h", "x">>,
      <<"g", "o", "o", "d", " ", "w", "o", "r", "k">>,
      <<"g", "r", "e", "a", "t", " ", "j", "o", "b">>,
      <<"a", "w", "e", "s", "o", "m", "e">>,
      <<"p", "e", "r", "f", "e", "c", "t">>,
      <<"o", "k">>,
      <<"c", "o", "o", "l">> }

\* the string the post-check of chat_handler scans the RAG answer for
REFUSAL_PHRASE ==
    <<"I", " ", "c", "o", "u", "l", "d", " ", "n", "o", "t", " ", "f", "i", "n", "d",
      " ", "i", "n", "f", "o", "r", "m", "a", "t", "i", "o", "n">>

\* the text of rag_prompt_template, with its {context} and {question} fields;
\* "GRAVE" stands for the grave accent character
rag_prompt_template ==
    <<"\n", "Y", "o", "u", " ", "a", "r", "e", " ", "a", "n", " ", "A", "I", " ", "a",
      "s", "s", "i", "s", "t", "a", "n", "t", " ", "f", "o", "r", " ", "c", "o", "m",
      "p", "a", "n", "y", " ", "e", "m", "p", "l", "o", "y", "e", "e", "s", ".", " ",
      "Y", "o", "u", "r", " ", "t", "o", "n", "e", " ", "s", "h", "o", "u", "l", "d",
      " ", "b", "e", " ", "h", "e", "l", "p", "f", "u", "l", ",", " ", "p", "r", "o",
      "f", "e", "s", "s", "i", "o", "n", "a", "l", ",", " ", "a", "n", "d", " ", "c",
      "l", "e", "a", "r", ".", "\n", "A", "n", "s", "w", "e", "r", " ", "t", "h", "e",
      " ", "u", "s", "e", "r", "'", "s", " ", "q", "u", "e", "s", "t", "i", "o", "n",
      " ", "b", "a", "s", "e", "d", " ", "O", "N", "L", "Y", " ", "o", "n", " ", "t",
      "h", "e", " ", "c", "o", "n", "t", "e", "x", "t", " ", "p", "r", "o", "v", "i",
      "d", "e", "d", " ", "b", "e", "l", "o", "w", ".", "\n", "\n", "*", "*", "C", "R",
      "I", "T", "I", "C", "A", "L", " ", "I", "N", "S", "T", "R", "U", "C", "T", "I",
      "O", "N", "S", " ", "F", "O", "R", " ", "F", "O", "R", "M", "A", "T", "T", "I",
      "N", "G", " ", "Y", "O", "U", "R", " ", "R", "E", "S", "P", "O", "N", "S", "E",
      ":", "*", "*", "\n", "-", " ", "I", "f", " ", "t", "h", "e", " ", "c", "o", "n",
      "t", "e", "x", "t", " ", "i", "s", " ", "e", "m", "p", "t", "y", ",", " ", "y",
      "o", "u", " ", "M", "U", "S", "T", " ", "p", "o", "l", "i", "t", "e", "l", "y",
      " ", "s", "t", "a", "t", "e", " ", "t", "h", "a", "t", " ", "y", "o", "u", " ",
      "c", "o", "u", "l", "d", "n", "'", "t", " ", "f", "i", "n", "d", " ", "a", " ",
      "s", "p", "e", "c", "i", "f", "i", "c", " ", "p", "o", "l", "i", "c", "y", " ",
      "r", "e", "l", "a", "t", "e", "d", " ", "t", "o", " ", "t", "h", "e", " ", "u",
      "s", "e", "r", "'", "s", " ", "q", "u", "e", "s", "t", "i", "o", "n", " ", "a",
      "n", "d", " ", "a", "s", "k", " ", "t", "h", "e", "m", " ", "t", "o", " ", "r",
      "e", "p", "h", "r", "a", "s", "e", " ", "o", "r", " ", "a", "s", "k", " ", "a",
      "b", "o", "u", "t", " ", "a", "n", "o", "t", "h", "e", "r", " ", "t", "o", "p",
      "i", "c", ".", " ", "D", "o", " ", "n", "o", "t", " ", "m", "e", "n", "t", "i",
      "o", "n", " ", "t", "h", "e", " ", "w", "o", "r", "d", " ", "\"", "c", "o", "n",
      "t", "e", "x", "t", "\"", ".", "\n", "-", " ", "I", "f", " ", "t", "h", "e", " ",
      "a", "n", "s", "w", "e", "r", " ", "i", "s", " ", "a", " ", "d", "e", "t", "a",
      "i", "l", "e", "d", " ", "e", "x", "p", "l", "a", "n", "a", "t", "i", "o", "n",
      " ", "o", "f", " ", "a", " ", "p", "o", "l", "i", "c", "y", ",", " ", "s", "t",
      "a", "r", "t", " ", "w", "i", "t", "h", " ", "a", " ", "r", "e", "l", "e", "v",
      "a", "n", "t", " ", "h", "e", "a", "d", "i", "n", "g", " ", "(", "e", ".", "g",
      ".", ",", " ", "GRAVE", "#", "#", "#", " ", "W", "o", "r", "k", " ", "F", "r", "o",
      "m", " ", "H", "o", "m", "e", " ", "P", "o", "l", "i", "c", "y", "GRAVE", ")", ".",
      "\n", "-", " ", "F", "o", "r", " ", "s", "i", "m", "p", "l", "e", " ", "q", "u",
      "e", "s", "t", "i", "o", "n", "s", " ", "o", "r", " ", "g", "r", "e", "e", "t",
      "i", "n", "g", "s", ",", " ", "p", "r", "o", "v", "i", "d", "e", " ", "a", " ",
      "d", "i", "r", "e", "c", "t", ",", " ", "c", "o", "n", "v", "e", "r", "s", "a",
      "t", "i", "o", "n", "a", "l", " ", "a", "n", "s", "w", "e", "r", " ", "w", "i",
      "t", "h", "o", "u", "t", " ", "a", " ", "h", "e", "a", "d", "i", "n", "g", ".",
      "\n", "-", " ", "U", "s", "e", " ", "b", "u", "l", "l", "e", "t", " ", "p", "o",
      "i", "n", "t", "s", " ", "(", "GRAVE", "-", "GRAVE", ")", " ", "f", "o", "r", " ", "l",
      "i", "s", "t", "s", " ", "o", "r", " ", "s", "t", "e", "p", "s", ".", "\n", "-",
      " ", "U", "s", "e", " ", "b", "o", "l", "d", " ", "t", "e", "x", "t", " ", "(",
      "GRAVE", "*", "*", "k", "e", "y", " ", "t", "e", "r", "m", "*", "*", "GRAVE", ")", " ",
      "t", "o", " ", "h", "i", "g", "h", "l", "i", "g", "h", "t", " ", "i", "m", "p",
      "o", "r", "t", "a", "n", "t", " ", "c", "o", "n", "c", "e", "p", "t", "s", ".",
      "\n", "-", " ", "W", "r", "i", "t", "e", " ", "i", "n", " ", "c", "l", "e", "a",
      "r", ",", " ", "w", "e", "l", "l", "-", "s", "t", "r", "u", "c", "t", "u", "r",
      "e", "d", " ", "p", "a", "r", "a", "g", "r", "a", "p", "h", "s", ".", "\n", "\n",
      "C", "o", "n", "t", "e", "x", "t", ":", "\n", "{", "c", "o", "n", "t", "e", "x",
      "t", "}", "\n", "\n", "Q", "u", "e", "s", "t", "i", "o", "n", ":", "\n", "{",
      "q", "u", "e", "s", "t", "i", "o", "n", "}", "\n">>

(***************************************************************************)
(* Python string operations.                                               *)
(***************************************************************************)
UpperLetters ==
    <<"A", "B", "C", "D", "E", "F", "G", "H", "I", "J", "K", "L", "M",
      "N", "O", "P", "Q", "R", "S", "T", "U", "V", "W", "X", "Y", "Z">>

LowerLetters ==
    <<"a", "b", "c", "d", "e", "f", "g", "h", "i", "j", "k", "l", "m",
      "n", "o", "p", "q", "r", "s", "t", "u", "v", "w", "x", "y", "z">>

Whitespace == {" ", "\t", "\n", "\r"}

LowerChar(c) ==
    IF \E i \in 1..Len(UpperLetters) : UpperLetters[i] = c
    THEN LowerLetters[CHOOSE i \in 1..Len(UpperLetters) : UpperLetters[i] = c]
    ELSE c

\* str.lower()
Lower(s) == [i \in 1..Len(s) |-> LowerChar(s[i])]

RECURSIVE LStrip(_)
LStrip(s) ==
    IF s # <<>> /\ Head(s) \in Whitespace THEN LStrip(Tail(s)) ELSE s

RECURSIVE RStrip(_)
RStrip(s) ==
    IF s # <<>> /\ s[Len(s)] \in Whitespace
    THEN RStrip(SubSeq(s, 1, Len(s) - 1))
    ELSE s

\* str.strip()
Strip(s) == RStrip(LStrip(s))

\* sub in s
Contains(s, sub) ==
    \E i \in 1..(Len(s) - Len(sub) + 1) : SubSeq(s, i, i + Len(sub) - 1) = sub

\* Join with a single newline between the parts
RECURSIVE JoinSingleNewline(_)
JoinSingleNewline(parts) ==
    IF parts = <<>> THEN <<>>
    ELSE IF Len(parts) = 1 THEN parts[1]
    ELSE parts[1] \o <<"\n">> \o JoinSingleNewline(Tail(parts))

\* "\n\n".join(parts)
RECURSIVE Join(_)
Join(parts) ==
    IF parts = <<>> THEN <<>>
    ELSE IF Len(parts) = 1 THEN parts[1]
    ELSE parts[1] \o <<"\n", "\n">> \o Join(Tail(parts))

\* s with the first occurrence of field replaced by value
Replace(s, field, value) ==
    IF Contains(s, field)
    THEN LET i == CHOOSE n \in 1..Len(s) :
                    /\ SubSeq(s, n, n + Len(field) - 1) = field
                    /\ \A m \in 1..(n - 1) : SubSeq(s, m, m + Len(field) - 1) # field
         IN SubSeq(s, 1, i - 1) \o value \o SubSeq(s, i + Len(field), Len(s))
    ELSE s

\* the prompt rag_chain.invoke sends: the template with both fields filled in
FormatRagPrompt(context, question) ==
    Replace(Replace(rag_prompt_template,
                    <<"{", "c", "o", "n", "t", "e", "x", "t", "}">>, context),
            <<"{", "q", "u", "e", "s", "t", "i", "o", "n", "}">>, question)

(***************************************************************************)
(* What the outside world can supply: questions, search results, answers   *)
(* of the language model and measured durations.                           *)
(***************************************************************************)
Paths == {"/chat", "/health"}

\* questions of the request specification: three that normalise to a phrase,
\* one that embeds a phrase among other words, a policy question, the empty
\* question and a whitespace-only one
Questions ==
    { <<"h", "i">>,
      <<" ", "H", "i", "\n">>,
      <<"O", "K">>,
      <<"h", "i", " ", "v", "p", "n">>,
      <<"v", "p", "n">>,
      <<>>,
      <<" ">> }

Alphabet == {"h", "H", "i", "I", " ", "\n", "x"}

\* every string over Alphabet of at most MaxLen characters
ShortQuestions == UNION { [1..n -> Alphabet] : n \in 0..MaxLen }

Scores == {39, 40, 44, 45, 50}

CompanyTexts == { <<"a">>, <<"b", "c">> }

StandardsTexts == { <<"d">>, <<"e", "f">> }

\* a (Document, score) pair of similarity_search_with_score
Passages(texts) == [page_content : texts, score : Scores]

\* the provider returns at most k passages, highest score first
SearchResults(texts) ==
    { s \in UNION { [1..n -> Passages(texts)] :
                      n \in 0..(IF MaxDocs < k THEN MaxDocs ELSE k) } :
        \A i \in 1..(Len(s) - 1) : s[i].score >= s[i + 1].score }

\* answers the language model can give: the refusal phrase alone, the phrase
\* inside a longer answer, the phrase in another letter case, a plain answer
Answers ==
    { REFUSAL_PHRASE,
      <<"S", "o", "r", "r", "y", ".", " ">> \o REFUSAL_PHRASE \o <<".">>,
      Lower(REFUSAL_PHRASE),
      <<"U", "s", "e", " ", "M", "F", "A">> }

CompanyResults == SearchResults(CompanyTexts)

StandardsResults == SearchResults(StandardsTexts)

\* what the external services answer in the request specification; a measured
\* time.time() difference is one abstract duration there
RequestEnv ==
    [ answers |-> Answers,
      company |-> CompanyResults,
      standards |-> StandardsResults,
      durations |-> {1} ]

(***************************************************************************)
(* One request: its position in the middleware and the handler, the        *)
(* attributes set on request.state (attrs names those that exist), the     *)
(* handler's local variables and the calls made to external services.      *)
(***************************************************************************)
NewRequest(path, question) ==
    [ pc |-> "received",
      path |-> path,
      question |-> question,
      lowered_question |-> <<>>,
      attrs |-> {},
      vdb_time_1 |-> 0,
      vdb_time_2 |-> 0,
      llm_time |-> 0,
      hit_type |-> "",
      retrieval_score |-> 0,
      doc_count |-> 0,
      context_length |-> 0,
      company_docs_with_scores |-> <<>>,
      company_docs |-> <<>>,
      standards_docs_with_scores |-> <<>>,
      standards_docs |-> <<>>,
      context |-> <<>>,
      source |-> "",
      calls |-> <<>>,
      status |-> 0,
      answer |-> <<>>,
      response_source |-> "" ]

\* app.state.metrics as startup_event creates it
startup_event ==
    [ total |-> <<>>,
      vdb1 |-> <<>>,
      vdb2 |-> <<>>,
      llm |-> <<>>,
      scores |-> <<>>,
      doc_counts |-> <<>>,
      context_lengths |-> <<>>,
      hits_company |-> 0,
      hits_standards |-> 0,
      hits_none |-> 0 ]

\* a call of vectorstore.similarity_search_with_score
SearchCall(question, namespace) ==
    [ fn |-> "search", target |-> namespace, question |-> question,
      has_context |-> FALSE, context |-> <<>>, k |-> k ]

\* a call of (prompt | llm).invoke in CHAT mode
ChatCall(question) ==
    [ fn |-> "llm", target |-> "chat", question |-> question,
      has_context |-> FALSE, context |-> <<>>, k |-> 0 ]

\* RagCall passing a placeholder text when the context is empty
RagCallPlaceholder(question, context) ==
    [ fn |-> "llm", target |-> "rag", question |-> question,
      has_context |-> TRUE,
      context |-> IF context = <<>> THEN <<"N", "o", "n", "e">> ELSE context,
      k |-> 0 ]

\* RagCall passing the normalised question
RagCallNormalised(question, context) ==
    [ fn |-> "llm", target |-> "rag", question |-> Strip(Lower(question)),
      has_context |-> TRUE, context |-> context, k |-> 0 ]

\* a call of (prompt | llm).invoke in RAG mode
RagCall(question, context) ==
    [ fn |-> "llm", target |-> "rag", question |-> question,
      has_context |-> TRUE, context |-> context, k |-> 0 ]

(***************************************************************************)
(* Pure steps of chat_handler.                                             *)
(***************************************************************************)
\* IsConversational with a substring test in place of list membership
IsConversationalSubstring(question) ==
    \E p \in conversational_phrases : Contains(Strip(Lower(question)), p)

\* IsConversational testing the raw question in place of the normalised one
IsConversationalRaw(question) ==
    question \in conversational_phrases

\* lowered_question in conversational_phrases
IsConversational(question) ==
    Strip(Lower(question)) \in conversational_phrases

\* AcceptCompany filtering by the fallback threshold
AcceptCompanyFallbackThreshold(docs_with_scores) ==
    SelectSeq(docs_with_scores, LAMBDA d : d.score >= fallback_threshold)

\* AcceptCompany with a strict comparison
AcceptCompanyStrict(docs_with_scores) ==
    SelectSeq(docs_with_scores, LAMBDA d : d.score > score_threshold)

\* AcceptCompany keeping only the first accepted passage
AcceptCompanyTopOnly(docs_with_scores) ==
    LET passing == SelectSeq(docs_with_scores, LAMBDA d : d.score >= score_threshold)
    IN IF passing = <<>> THEN <<>> ELSE <<passing[1]>>

\* AcceptCompany relaxing its threshold once the metrics show a request
\* that found nothing
AcceptCompanyAdaptive(docs_with_scores) ==
    LET threshold == IF metrics.hits_none > 0 THEN fallback_threshold
                     ELSE score_threshold
    IN SelectSeq(docs_with_scores, LAMBDA d : d.score >= threshold)

\* [doc for doc, score in company_docs_with_scores if score >= score_threshold]
AcceptCompany(docs_with_scores) ==
    SelectSeq(docs_with_scores, LAMBDA d : d.score >= score_threshold)

\* AcceptStandards without the score filter
AcceptStandardsUnfiltered(docs_with_scores) ==
    docs_with_scores

\* AcceptStandards with a strict comparison
AcceptStandardsStrict(docs_with_scores) ==
    SelectSeq(docs_with_scores, LAMBDA d : d.score > fallback_threshold)

\* [doc for doc, score in standards_docs_with_scores if score >= fallback_threshold]
AcceptStandards(docs_with_scores) ==
    SelectSeq(docs_with_scores, LAMBDA d : d.score >= fallback_threshold)

\* [doc.page_content for doc in docs]
PageContents(docs) == [i \in 1..Len(docs) |-> docs[i].page_content]

\* PostCheck comparing the whole answer with the phrase
PostCheckEquals(content, source) ==
    IF content = REFUSAL_PHRASE THEN "" ELSE source

\* the post-check on the RAG answer
PostCheck(content, source) ==
    IF Contains(content, REFUSAL_PHRASE) THEN "" ELSE source

(***************************************************************************)
(* The middleware up to call_next and the routing of the request.          *)
(***************************************************************************)
\* log_performance_metrics takes start_time and awaits call_next: a POST to
\* /chat enters chat_handler, any other path is answered 404 by the router
Dispatch(r) ==
    /\ rq[r].pc = "received"
    /\ rq' = [rq EXCEPT ![r] =
                IF rq[r].path = "/chat"
                THEN [@ EXCEPT !.pc = "classify"]
                ELSE [@ EXCEPT !.pc = "returned", !.status = 404]]
    /\ UNCHANGED metrics

(***************************************************************************)
(* chat_handler, cut at its calls to the language model and the provider.  *)
(***************************************************************************)
\* normalise the question and choose the conversational or the RAG branch
Classify(r) ==
    /\ rq[r].pc = "classify"
    /\ rq' = [rq EXCEPT ![r] =
                [@ EXCEPT !.lowered_question = Strip(Lower(rq[r].question)),
                          !.pc = IF IsConversational(rq[r].question)
                                 THEN "chat_invoke"
                                 ELSE "search_company"]]
    /\ UNCHANGED metrics

\* chat_chain.invoke returns: the answer goes back with an empty source
ChatInvoke(r, env) ==
    /\ rq[r].pc = "chat_invoke"
    /\ \E content \in env.answers, t \in env.durations :
         rq' = [rq EXCEPT ![r] =
                  [@ EXCEPT !.calls = Append(@, ChatCall(rq[r].question)),
                            !.llm_time = t,
                            !.attrs = @ \cup {"llm_time"},
                            !.answer = content,
                            !.response_source = "",
                            !.status = 200,
                            !.pc = "returned"]]
    /\ UNCHANGED metrics

\* Raise caught inside the handler and answered with a canned apology
RaiseAnswered(req, call) ==
    [req EXCEPT !.calls = Append(@, call),
                !.answer = <<"S", "o", "r", "r", "y">>,
                !.response_source = "",
                !.status = 200,
                !.pc = "returned"]

\* an exception raised inside chat_handler leaves the handler and, through
\* call_next, the middleware: nothing after the raising call runs
Raise(req, call) ==
    [req EXCEPT !.calls = Append(@, call), !.status = 500, !.pc = "done"]

\* chat_chain.invoke raises
ChatInvokeRaises(r) ==
    /\ rq[r].pc = "chat_invoke"
    /\ rq' = [rq EXCEPT ![r] = Raise(@, ChatCall(rq[r].question))]
    /\ UNCHANGED metrics

\* CompanyHit recording the score of the first accepted passage
CompanyHitFirstAccepted(req, docs_with_scores, company_docs) ==
    [req EXCEPT !.context = Join(PageContents(company_docs)),
                !.source = "Company Policy",
                !.hit_type = "company",
                !.retrieval_score = company_docs[1].score,
                !.doc_count = Len(company_docs),
                !.context_length = Len(Join(PageContents(company_docs))),
                !.attrs = @ \cup {"hit_type", "retrieval_score", "doc_count",
                                   "context_length"},
                !.pc = "rag_invoke"]

\* the company branch of chat_handler once the search has returned
CompanyHit(req, docs_with_scores, company_docs) ==
    [req EXCEPT !.context = Join(PageContents(company_docs)),
                !.source = "Company Policy",
                !.hit_type = "company",
                !.retrieval_score = docs_with_scores[1].score,
                !.doc_count = Len(company_docs),
                !.context_length = Len(Join(PageContents(company_docs))),
                !.attrs = @ \cup {"hit_type", "retrieval_score", "doc_count",
                                   "context_length"},
                !.pc = "rag_invoke"]

\* the company search returns: filter by score_threshold, then either build
\* the context from the accepted passages or fall back to the standards
SearchCompany(r, env) ==
    /\ rq[r].pc = "search_company"
    /\ \E docs_with_scores \in env.company, t \in env.durations :
         LET company_docs == AcceptCompany(docs_with_scores)
             searched ==
               [rq[r] EXCEPT
                  !.calls = Append(@, SearchCall(rq[r].question, COMPANY_NAMESPACE)),
                  !.vdb_time_1 = t,
                  !.attrs = @ \cup {"vdb_time_1"},
                  !.company_docs_with_scores = docs_with_scores,
                  !.company_docs = company_docs]
         IN rq' = [rq EXCEPT ![r] =
                     IF company_docs # <<>>
                     THEN CompanyHit(searched, docs_with_scores, company_docs)
                     ELSE [searched EXCEPT !.pc = "search_standards"]]
    /\ UNCHANGED metrics

\* the company search raises
SearchCompanyRaises(r) ==
    /\ rq[r].pc = "search_company"
    /\ rq' = [rq EXCEPT ![r] =
                Raise(@, SearchCall(rq[r].question, COMPANY_NAMESPACE))]
    /\ UNCHANGED metrics

\* StandardsHit labelling the source with the namespace searched
StandardsHitNamespace(req, docs_with_scores, standards_docs) ==
    [req EXCEPT !.context = Join(PageContents(standards_docs)),
                !.source = STANDARDS_NAMESPACE,
                !.hit_type = "standards",
                !.retrieval_score = docs_with_scores[1].score,
                !.doc_count = Len(standards_docs),
                !.context_length = Len(Join(PageContents(standards_docs))),
                !.attrs = @ \cup {"hit_type", "retrieval_score", "doc_count",
                                   "context_length"},
                !.pc = "rag_invoke"]

\* the standards branch with accepted passages
StandardsHit(req, docs_with_scores, standards_docs) ==
    [req EXCEPT !.context = Join(PageContents(standards_docs)),
                !.source = "General Standards",
                !.hit_type = "standards",
                !.retrieval_score = docs_with_scores[1].score,
                !.doc_count = Len(standards_docs),
                !.context_length = Len(Join(PageContents(standards_docs))),
                !.attrs = @ \cup {"hit_type", "retrieval_score", "doc_count",
                                   "context_length"},
                !.pc = "rag_invoke"]

\* NoHit keeping the label of the partition searched last
NoHitLabelled(req) ==
    [req EXCEPT !.source = "General Standards",
                !.hit_type = "none",
                !.retrieval_score = 0,
                !.doc_count = 0,
                !.context_length = Len(req.context),
                !.attrs = @ \cup {"hit_type", "retrieval_score", "doc_count",
                                   "context_length"},
                !.pc = "rag_invoke"]

\* NoHit going back to the company search instead of on to the answer
NoHitRetry(req) ==
    [req EXCEPT !.hit_type = "none",
                !.retrieval_score = 0,
                !.doc_count = 0,
                !.context_length = Len(req.context),
                !.attrs = @ \cup {"hit_type", "retrieval_score", "doc_count",
                                   "context_length"},
                !.pc = "search_company"]

\* NoHit ending the request with a 404 instead of asking the synthesizer
NoHitNotFound(req) ==
    [req EXCEPT !.hit_type = "none",
                !.retrieval_score = 0,
                !.doc_count = 0,
                !.context_length = Len(req.context),
                !.attrs = @ \cup {"hit_type", "retrieval_score", "doc_count",
                                   "context_length"},
                !.status = 404,
                !.pc = "returned"]

\* the standards branch with no accepted passage
NoHit(req) ==
    [req EXCEPT !.hit_type = "none",
                !.retrieval_score = 0,
                !.doc_count = 0,
                !.context_length = Len(req.context),
                !.attrs = @ \cup {"hit_type", "retrieval_score", "doc_count",
                                   "context_length"},
                !.pc = "rag_invoke"]

\* the standards search returns: filter by fallback_threshold
SearchStandards(r, env) ==
    /\ rq[r].pc = "search_standards"
    /\ \E docs_with_scores \in env.standards, t \in env.durations :
         LET standards_docs == AcceptStandards(docs_with_scores)
             searched ==
               [rq[r] EXCEPT
                  !.calls = Append(@, SearchCall(rq[r].question, STANDARDS_NAMESPACE)),
                  !.vdb_time_2 = t,
                  !.attrs = @ \cup {"vdb_time_2"},
                  !.standards_docs_with_scores = docs_with_scores,
                  !.standards_docs = standards_docs]
         IN rq' = [rq EXCEPT ![r] =
                     IF standards_docs # <<>>
                     THEN StandardsHit(searched, docs_with_scores, standards_docs)
                     ELSE NoHit(searched)]
    /\ UNCHANGED metrics

\* the standards search raises
SearchStandardsRaises(r) ==
    /\ rq[r].pc = "search_standards"
    /\ rq' = [rq EXCEPT ![r] =
                Raise(@, SearchCall(rq[r].question, STANDARDS_NAMESPACE))]
    /\ UNCHANGED metrics

\* rag_chain.invoke returns: post-check the answer and return the response
RagInvoke(r, env) ==
    /\ rq[r].pc = "rag_invoke"
    /\ \E content \in env.answers, t \in env.durations :
         rq' = [rq EXCEPT ![r] =
                  [@ EXCEPT !.calls = Append(@, RagCall(rq[r].question, rq[r].context)),
                            !.llm_time = t,
                            !.attrs = @ \cup {"llm_time"},
                            !.source = PostCheck(content, rq[r].source),
                            !.answer = content,
                            !.response_source = PostCheck(content, rq[r].source),
                            !.status = 200,
                            !.pc = "returned"]]
    /\ UNCHANGED metrics

\* rag_chain.invoke raises
RagInvokeRaises(r) ==
    /\ rq[r].pc = "rag_invoke"
    /\ rq' = [rq EXCEPT ![r] = Raise(@, RagCall(rq[r].question, rq[r].context))]
    /\ UNCHANGED metrics

(***************************************************************************)
(* The middleware after call_next has returned a response.                 *)
(***************************************************************************)
\* Logged without the count of the requests that found nothing
LoggedNoneUncounted(m, req, process_time) ==
    LET has(a) == a \in req.attrs
        rag == has("hit_type")
    IN [ total |-> Append(m.total, process_time),
         vdb1 |-> IF has("vdb_time_1") THEN Append(m.vdb1, req.vdb_time_1) ELSE m.vdb1,
         vdb2 |-> IF has("vdb_time_2") THEN Append(m.vdb2, req.vdb_time_2) ELSE m.vdb2,
         llm |-> IF has("llm_time") THEN Append(m.llm, req.llm_time) ELSE m.llm,
         scores |-> IF rag THEN Append(m.scores, req.retrieval_score) ELSE m.scores,
         doc_counts |-> IF rag THEN Append(m.doc_counts, req.doc_count)
                        ELSE m.doc_counts,
         context_lengths |-> IF rag THEN Append(m.context_lengths, req.context_length)
                             ELSE m.context_lengths,
         hits_company |-> IF rag /\ req.hit_type = "company"
                          THEN m.hits_company + 1 ELSE m.hits_company,
         hits_standards |-> IF rag /\ req.hit_type = "standards"
                            THEN m.hits_standards + 1 ELSE m.hits_standards,
         hits_none |-> m.hits_none ]

\* Logged putting the newest retrieval score first
LoggedNewestFirst(m, req, process_time) ==
    LET has(a) == a \in req.attrs
        rag == has("hit_type")
    IN [ total |-> Append(m.total, process_time),
         vdb1 |-> IF has("vdb_time_1") THEN Append(m.vdb1, req.vdb_time_1) ELSE m.vdb1,
         vdb2 |-> IF has("vdb_time_2") THEN Append(m.vdb2, req.vdb_time_2) ELSE m.vdb2,
         llm |-> IF has("llm_time") THEN Append(m.llm, req.llm_time) ELSE m.llm,
         scores |-> IF rag THEN <<req.retrieval_score>> \o m.scores ELSE m.scores,
         doc_counts |-> IF rag THEN Append(m.doc_counts, req.doc_count)
                        ELSE m.doc_counts,
         context_lengths |-> IF rag THEN Append(m.context_lengths, req.context_length)
                             ELSE m.context_lengths,
         hits_company |-> IF rag /\ req.hit_type = "company"
                          THEN m.hits_company + 1 ELSE m.hits_company,
         hits_standards |-> IF rag /\ req.hit_type = "standards"
                            THEN m.hits_standards + 1 ELSE m.hits_standards,
         hits_none |-> IF rag /\ req.hit_type = "none"
                       THEN m.hits_none + 1 ELSE m.hits_none ]

\* Logged counting a hit by the source label of the response
LoggedBySource(m, req, process_time) ==
    LET has(a) == a \in req.attrs
        rag == has("hit_type")
        hit == IF req.response_source = "" THEN "none" ELSE req.hit_type
    IN [ total |-> Append(m.total, process_time),
         vdb1 |-> IF has("vdb_time_1") THEN Append(m.vdb1, req.vdb_time_1) ELSE m.vdb1,
         vdb2 |-> IF has("vdb_time_2") THEN Append(m.vdb2, req.vdb_time_2) ELSE m.vdb2,
         llm |-> IF has("llm_time") THEN Append(m.llm, req.llm_time) ELSE m.llm,
         scores |-> IF rag THEN Append(m.scores, req.retrieval_score) ELSE m.scores,
         doc_counts |-> IF rag THEN Append(m.doc_counts, req.doc_count)
                        ELSE m.doc_counts,
         context_lengths |-> IF rag THEN Append(m.context_lengths, req.context_length)
                             ELSE m.context_lengths,
         hits_company |-> IF rag /\ hit = "company"
                          THEN m.hits_company + 1 ELSE m.hits_company,
         hits_standards |-> IF rag /\ hit = "standards"
                            THEN m.hits_standards + 1 ELSE m.hits_standards,
         hits_none |-> IF rag /\ hit = "none"
                       THEN m.hits_none + 1 ELSE m.hits_none ]

\* Logged recording a retrieval score only for a request that found evidence
LoggedScoreOnHit(m, req, process_time) ==
    LET has(a) == a \in req.attrs
        rag == has("hit_type")
    IN [ total |-> Append(m.total, process_time),
         vdb1 |-> IF has("vdb_time_1") THEN Append(m.vdb1, req.vdb_time_1) ELSE m.vdb1,
         vdb2 |-> IF has("vdb_time_2") THEN Append(m.vdb2, req.vdb_time_2) ELSE m.vdb2,
         llm |-> IF has("llm_time") THEN Append(m.llm, req.llm_time) ELSE m.llm,
         scores |-> IF rag /\ req.hit_type # "none"
                    THEN Append(m.scores, req.retrieval_score) ELSE m.scores,
         doc_counts |-> IF rag THEN Append(m.doc_counts, req.doc_count)
                        ELSE m.doc_counts,
         context_lengths |-> IF rag THEN Append(m.context_lengths, req.context_length)
                             ELSE m.context_lengths,
         hits_company |-> IF rag /\ req.hit_type = "company"
                          THEN m.hits_company + 1 ELSE m.hits_company,
         hits_standards |-> IF rag /\ req.hit_type = "standards"
                            THEN m.hits_standards + 1 ELSE m.hits_standards,
         hits_none |-> IF rag /\ req.hit_type = "none"
                       THEN m.hits_none + 1 ELSE m.hits_none ]

\* the metrics after the middleware has logged request req
Logged(m, req, process_time) ==
    LET has(a) == a \in req.attrs
        rag == has("hit_type")
    IN [ total |-> Append(m.total, process_time),
         vdb1 |-> IF has("vdb_time_1") THEN Append(m.vdb1, req.vdb_time_1) ELSE m.vdb1,
         vdb2 |-> IF has("vdb_time_2") THEN Append(m.vdb2, req.vdb_time_2) ELSE m.vdb2,
         llm |-> IF has("llm_time") THEN Append(m.llm, req.llm_time) ELSE m.llm,
         scores |-> IF rag THEN Append(m.scores, req.retrieval_score) ELSE m.scores,
         doc_counts |-> IF rag THEN Append(m.doc_counts, req.doc_count)
                        ELSE m.doc_counts,
         context_lengths |-> IF rag THEN Append(m.context_lengths, req.context_length)
                             ELSE m.context_lengths,
         hits_company |-> IF rag /\ req.hit_type = "company"
                          THEN m.hits_company + 1 ELSE m.hits_company,
         hits_standards |-> IF rag /\ req.hit_type = "standards"
                            THEN m.hits_standards + 1 ELSE m.hits_standards,
         hits_none |-> IF rag /\ req.hit_type = "none"
                       THEN m.hits_none + 1 ELSE m.hits_none ]

\* log_performance_metrics logging the requests of every path
log_performance_metricsAnyPath(r, env) ==
    /\ rq[r].pc = "returned"
    /\ \E process_time \in env.durations :
         metrics' = Logged(metrics, rq[r], process_time)
    /\ rq' = [rq EXCEPT ![r] = [@ EXCEPT !.pc = "done"]]

\* log_performance_metrics from the return of call_next to its own return
log_performance_metrics(r, env) ==
    /\ rq[r].pc = "returned"
    /\ \E process_time \in env.durations :
         metrics' = IF rq[r].path = "/chat"
                    THEN Logged(metrics, rq[r], process_time)
                    ELSE metrics
    /\ rq' = [rq EXCEPT ![r] = [@ EXCEPT !.pc = "done"]]

(***************************************************************************)
(* The request specification: one request, from its arrival at the         *)
(* middleware to the response.                                             *)
(***************************************************************************)
Init ==
    /\ metrics = startup_event
    /\ services = <<>>
    /\ \E path \in Paths, question \in Questions :
         rq = [r \in {1} |-> NewRequest(path, question)]

Next ==
    /\ \E r \in DOMAIN rq :
          \/ Dispatch(r)
          \/ Classify(r)
          \/ ChatInvoke(r, RequestEnv)
          \/ ChatInvokeRaises(r)
          \/ SearchCompany(r, RequestEnv)
          \/ SearchCompanyRaises(r)
          \/ SearchStandards(r, RequestEnv)
          \/ SearchStandardsRaises(r)
          \/ RagInvoke(r, RequestEnv)
          \/ RagInvokeRaises(r)
          \/ log_performance_metrics(r, RequestEnv)
    /\ UNCHANGED services

Spec == Init /\ [][Next]_vars

(***************************************************************************)
(* The request specification with progress: one /chat request; the thread  *)
(* of the handler and the event loop of the middleware keep running, and a *)
(* call to the provider or the synthesizer comes back, with a result or    *)
(* with an exception.                                                      *)
(***************************************************************************)
\* a greeting, a policy question and the empty question
LiveQuestions == { <<"O", "K">>, <<"v", "p", "n">>, <<>> }

LiveEnv ==
    [ answers |-> { <<"U", "s", "e", " ", "M", "F", "A">> },
      company |-> CompanyResults,
      standards |-> StandardsResults,
      durations |-> {1} ]

InitLive ==
    /\ metrics = startup_event
    /\ services = <<>>
    /\ \E question \in LiveQuestions :
         rq = [r \in {1} |-> NewRequest("/chat", question)]

NextLive ==
    /\ \E r \in DOMAIN rq :
          \/ Dispatch(r)
          \/ Classify(r)
          \/ ChatInvoke(r, LiveEnv)
          \/ ChatInvokeRaises(r)
          \/ SearchCompany(r, LiveEnv)
          \/ SearchCompanyRaises(r)
          \/ SearchStandards(r, LiveEnv)
          \/ SearchStandardsRaises(r)
          \/ RagInvoke(r, LiveEnv)
          \/ RagInvokeRaises(r)
          \/ log_performance_metrics(r, LiveEnv)
    /\ UNCHANGED services

SpecLive == InitLive /\ [][NextLive]_vars /\ WF_vars(NextLive)

(***************************************************************************)
(* The classifier specification: the question is any short string, and     *)
(* the request runs up to the branch chat_handler chooses.                 *)
(***************************************************************************)
InitClassify ==
    /\ metrics = startup_event
    /\ services = <<>>
    /\ \E path \in Paths, question \in ShortQuestions \cup Questions :
         rq = [r \in {1} |-> NewRequest(path, question)]

NextClassify ==
    /\ \E r \in DOMAIN rq :
          \/ Dispatch(r)
          \/ Classify(r)
    /\ UNCHANGED services

SpecClassify == InitClassify /\ [][NextClassify]_vars

(***************************************************************************)
(* The server specification: NumRequests /chat requests arrive and are     *)
(* handled concurrently, the handler of each in its own thread and the     *)
(* middleware on the event loop.  The provider and the synthesizer are     *)
(* deterministic stubs: the first answer to a call is remembered in        *)
(* services and every later call with the same arguments gets it again.    *)
(***************************************************************************)
ServerQuestions ==
    << <<"H", "i">>,
       <<"v", "p", "n">>,
       <<>> >>

\* what a stub does with a call: raise, or return docs (a search) or content
\* (the synthesizer)
Raises == [raises |-> TRUE, docs |-> <<>>, content |-> <<>>]

Returns(docs, content) == [raises |-> FALSE, docs |-> docs, content |-> content]

ServerCompanyOutcomes ==
    { Raises,
      Returns(<<[page_content |-> <<"a">>, score |-> 50],
                [page_content |-> <<"b", "c">>, score |-> 44]>>, <<>>),
      Returns(<<[page_content |-> <<"a">>, score |-> 44]>>, <<>>) }

ServerStandardsOutcomes ==
    { Raises,
      Returns(<<[page_content |-> <<"d">>, score |-> 40]>>, <<>>),
      Returns(<<[page_content |-> <<"e", "f">>, score |-> 39]>>, <<>>) }

ServerLlmOutcomes ==
    { Raises,
      Returns(<<>>, REFUSAL_PHRASE),
      Returns(<<>>, <<"U", "s", "e", " ", "M", "F", "A">>) }

\* the outcomes the stub can give to call: the remembered one, else any
Outcome(call, outcomes) ==
    IF call \in DOMAIN services THEN {services[call]} ELSE outcomes

\* the stub remembers its outcome for call
Remember(call, outcome) ==
    services' = [c \in DOMAIN services \cup {call} |->
                   IF c = call THEN outcome ELSE services[c]]

\* the environment of one step: the stub's outcome and one abstract duration
ServerEnv(outcome) ==
    [ answers |-> {outcome.content},
      company |-> {outcome.docs},
      standards |-> {outcome.docs},
      durations |-> {1} ]

\* the requests are numbered by their question: the numbers carry no order
\* of arrival, which is the order of the Dispatch steps
InitServer ==
    /\ metrics = startup_event
    /\ services = <<>>
    /\ \E n \in [1..NumRequests -> 1..Len(ServerQuestions)] :
         /\ \A r \in 1..(NumRequests - 1) : n[r] <= n[r + 1]
         /\ rq = [r \in 1..NumRequests |-> NewRequest("/chat", ServerQuestions[n[r]])]

NextServer ==
    \E r \in DOMAIN rq :
      LET question == rq[r].question
          chat == ChatCall(question)
          company == SearchCall(question, COMPANY_NAMESPACE)
          standards == SearchCall(question, STANDARDS_NAMESPACE)
          rag == RagCall(question, rq[r].context)
      IN
        \/ Dispatch(r) /\ UNCHANGED services
        \/ Classify(r) /\ UNCHANGED services
        \/ \E o \in Outcome(chat, ServerLlmOutcomes) :
             ~o.raises /\ ChatInvoke(r, ServerEnv(o)) /\ Remember(chat, o)
        \/ \E o \in Outcome(chat, ServerLlmOutcomes) :
             o.raises /\ ChatInvokeRaises(r) /\ Remember(chat, o)
        \/ \E o \in Outcome(company, ServerCompanyOutcomes) :
             ~o.raises /\ SearchCompany(r, ServerEnv(o)) /\ Remember(company, o)
        \/ \E o \in Outcome(company, ServerCompanyOutcomes) :
             o.raises /\ SearchCompanyRaises(r) /\ Remember(company, o)
        \/ \E o \in Outcome(standards, ServerStandardsOutcomes) :
             ~o.raises /\ SearchStandards(r, ServerEnv(o)) /\ Remember(standards, o)
        \/ \E o \in Outcome(standards, ServerStandardsOutcomes) :
             o.raises /\ SearchStandardsRaises(r) /\ Remember(standards, o)
        \/ \E o \in Outcome(rag, ServerLlmOutcomes) :
             ~o.raises /\ RagInvoke(r, ServerEnv(o)) /\ Remember(rag, o)
        \/ \E o \in Outcome(rag, ServerLlmOutcomes) :
             o.raises /\ RagInvokeRaises(r) /\ Remember(rag, o)
        \/ log_performance_metrics(r, ServerEnv(Returns(<<>>, <<>>)))
             /\ UNCHANGED services

SpecServer == InitServer /\ [][NextServer]_vars

(***************************************************************************)
(* The routing specification with a provider that promises no order: one   *)
(* policy question, every call returns, and a search returns up to k       *)
(* passages in any order of score.                                         *)
(***************************************************************************)
AnyOrderScores == {39, 40, 45, 50}

\* up to k passages of one text, in any order
AnyOrderResults(text) ==
    UNION { [1..n -> [page_content : {text}, score : AnyOrderScores]] : n \in 0..k }

AnyOrderEnv ==
    [ answers |-> { <<"U", "s", "e", " ", "M", "F", "A">> },
      company |-> AnyOrderResults(<<"a">>),
      standards |-> AnyOrderResults(<<"d">>),
      durations |-> {1} ]

InitAnyOrder ==
    /\ metrics = startup_event
    /\ services = <<>>
    /\ rq = [r \in {1} |-> NewRequest("/chat", <<"v", "p", "n">>)]

NextAnyOrder ==
    /\ \E r \in DOMAIN rq :
          \/ Dispatch(r)
          \/ Classify(r)
          \/ SearchCompany(r, AnyOrderEnv)
          \/ SearchStandards(r, AnyOrderEnv)
          \/ RagInvoke(r, AnyOrderEnv)
          \/ log_performance_metrics(r, AnyOrderEnv)
    /\ UNCHANGED services

SpecAnyOrder == InitAnyOrder /\ [][NextAnyOrder]_vars

(***************************************************************************)
(* Vocabulary of the properties.                                           *)
(***************************************************************************)
\* the search calls of a request, in the order they were made
Searches(req) == SelectSeq(req.calls, LAMBDA c : c.fn = "search")

\* the synthesizer calls of a request
LlmCalls(req) == SelectSeq(req.calls, LAMBDA c : c.fn = "llm")

SearchedNamespace(req, namespace) ==
    \E i \in 1..Len(req.calls) :
        req.calls[i].fn = "search" /\ req.calls[i].target = namespace

\* the company search of the request has returned its passages
CompanyReturned(req) == "vdb_time_1" \in req.attrs

\* the standards search of the request has returned its passages
StandardsReturned(req) == "vdb_time_2" \in req.attrs

\* some passage the company search returned reaches the primary threshold
CompanyEvidence(req) ==
    \E i \in 1..Len(req.company_docs_with_scores) :
        req.company_docs_with_scores[i].score >= score_threshold

\* some passage the standards search returned reaches the fallback threshold
StandardsEvidence(req) ==
    \E i \in 1..Len(req.standards_docs_with_scores) :
        req.standards_docs_with_scores[i].score >= fallback_threshold

\* chat_handler has returned a response for the request
Responded(req) == req.path = "/chat" /\ req.status = 200

\* the response is that of the RAG branch
RagResponded(req) ==
    /\ Responded(req)
    /\ req.calls # <<>>
    /\ req.calls[Len(req.calls)].target = "rag"

\* c is the letter d or its upper case
SameLetter(c, d) ==
    \/ c = d
    \/ \E n \in 1..Len(UpperLetters) : UpperLetters[n] = c /\ LowerLetters[n] = d

\* question is a phrase of the list, in any letter case, between two
\* possibly empty runs of whitespace
NormalisesToPhrase(question) ==
    \E p \in conversational_phrases :
      \E i \in 0..Len(question) :
        /\ i + Len(p) <= Len(question)
        /\ \A j \in 1..Len(p) : SameLetter(question[i + j], p[j])
        /\ \A j \in 1..i : question[j] \in Whitespace
        /\ \A j \in (i + Len(p) + 1)..Len(question) : question[j] \in Whitespace

\* the handler has classified the request
Classified(req) == req.path = "/chat" /\ req.pc \notin {"received", "classify"}

(***************************************************************************)
(* Properties of the routing.                                              *)
(***************************************************************************)
\* C1: the first search of a request is the company search; once the company
\* search has returned, the standards search is made (next, or already) if
\* and only if no returned company passage reaches the primary threshold, so
\* a request with an accepted company passage never searches the standards.
C1_CompanyFirstStandardsOnMissOnly ==
    \A r \in DOMAIN rq :
      LET req == rq[r] IN
        /\ Searches(req) # <<>> => Searches(req)[1].target = COMPANY_NAMESPACE
        /\ SearchedNamespace(req, STANDARDS_NAMESPACE) =>
             /\ CompanyReturned(req)
             /\ Len(Searches(req)) = 2
             /\ Searches(req)[2].target = STANDARDS_NAMESPACE
        /\ CompanyReturned(req) =>
             ((SearchedNamespace(req, STANDARDS_NAMESPACE)
                 \/ req.pc = "search_standards")
               <=> ~CompanyEvidence(req))

\* a request answered after falling back: its company passages all scored
\* below the threshold and its standards search was made
C1_Witness ==
    \E r \in DOMAIN rq :
      /\ rq[r].pc = "done"
      /\ rq[r].status = 200
      /\ rq[r].company_docs_with_scores # <<>>
      /\ ~CompanyEvidence(rq[r])
      /\ SearchedNamespace(rq[r], STANDARDS_NAMESPACE)

\* C2: a RAG response whose answer contains the refusal phrase has the empty
\* source, whatever the routing decided.
C2_RefusalClearsSource ==
    \A r \in DOMAIN rq :
      (RagResponded(rq[r]) /\ Contains(rq[r].answer, REFUSAL_PHRASE))
        => rq[r].response_source = ""

\* a company hit whose answer holds the phrase inside a longer text
C2_Witness ==
    \E r \in DOMAIN rq :
      /\ RagResponded(rq[r])
      /\ rq[r].hit_type = "company"
      /\ Contains(rq[r].answer, REFUSAL_PHRASE)
      /\ rq[r].answer # REFUSAL_PHRASE
      /\ rq[r].response_source = ""

\* C3: the source of every response is "", "Company Policy" or
\* "General Standards".
C3_SourceLabels ==
    \A r \in DOMAIN rq :
      Responded(rq[r]) =>
        rq[r].response_source \in {"", "Company Policy", "General Standards"}

\* a response attributed to the standards
C3_Witness ==
    \E r \in DOMAIN rq :
      Responded(rq[r]) /\ rq[r].response_source = "General Standards"

\* C4: a response with a non-empty source rests on a passage of the named
\* partition that reached that partition's threshold, and its answer does not
\* contain the refusal phrase; "General Standards" also means no company
\* passage reached the primary threshold.
C4_SourceBackedByEvidence ==
    \A r \in DOMAIN rq :
      LET req == rq[r] IN
        /\ (Responded(req) /\ req.response_source # "") =>
             ~Contains(req.answer, REFUSAL_PHRASE)
        /\ (Responded(req) /\ req.response_source = "Company Policy") =>
             CompanyEvidence(req)
        /\ (Responded(req) /\ req.response_source = "General Standards") =>
             StandardsEvidence(req) /\ ~CompanyEvidence(req)
        /\ (Responded(req) /\ req.response_source # "") =>
             req.response_source \in {"Company Policy", "General Standards"}

\* a response attributed to the standards although the search also returned
\* a passage below the fallback threshold
C4_Witness ==
    \E r \in DOMAIN rq :
      /\ Responded(rq[r])
      /\ rq[r].response_source = "General Standards"
      /\ \E i \in 1..Len(rq[r].standards_docs_with_scores) :
           rq[r].standards_docs_with_scores[i].score < fallback_threshold

\* C5: a request never ends in a server error on a failed search call: the
\* fault of the provider is absorbed as zero passages.
C5_ProviderFaultAbsorbed ==
    \A r \in DOMAIN rq :
      rq[r].status = 500 => rq[r].calls[Len(rq[r].calls)].fn # "search"

\* C6: a /chat request whose question is empty or whitespace only makes no
\* search call and no synthesizer call and never enters the routing.
C6_BlankQuestionRejected ==
    \A r \in DOMAIN rq :
      (rq[r].path = "/chat" /\ Strip(rq[r].question) = <<>>) =>
        /\ rq[r].calls = <<>>
        /\ rq[r].pc \notin {"search_company", "search_standards", "rag_invoke"}

\* C7: the handler takes the conversational branch exactly for the questions
\* that are a listed phrase up to letter case and surrounding whitespace; all
\* other questions go to the company search.
C7_ExactPhraseClassification ==
    \A r \in DOMAIN rq :
      Classified(rq[r]) =>
        /\ rq[r].pc = "chat_invoke" <=> NormalisesToPhrase(rq[r].question)
        /\ rq[r].pc = "search_company" <=> ~NormalisesToPhrase(rq[r].question)

\* a question that contains the phrase "hi" and more is on the search branch
C7_Witness ==
    \E r \in DOMAIN rq :
      /\ rq[r].pc = "search_company"
      /\ Contains(Lower(rq[r].question), <<"h", "i">>)
      /\ \E i \in 1..Len(rq[r].question) : rq[r].question[i] \notin Whitespace \cup {"h", "H", "i", "I"}

\* C8: a request whose normalised question is a listed phrase makes no
\* search call; its only call is the synthesizer in CHAT mode with the
\* question alone, and its response has the empty source.
C8_ConversationalSkipsRetrieval ==
    \A r \in DOMAIN rq :
      LET req == rq[r] IN
        (Classified(req) /\ req.lowered_question \in conversational_phrases) =>
          /\ Searches(req) = <<>>
          /\ \A i \in 1..Len(req.calls) :
               req.calls[i].target = "chat" /\ ~req.calls[i].has_context
          /\ req.pc \in {"returned", "done"} => Len(req.calls) = 1
          /\ req.status = 200 => req.response_source = ""
          /\ req.attrs \subseteq {"llm_time"}

\* a greeting written with capitals and whitespace, answered in CHAT mode
C8_Witness ==
    \E r \in DOMAIN rq :
      /\ rq[r].question # rq[r].lowered_question
      /\ rq[r].lowered_question \in conversational_phrases
      /\ rq[r].status = 200
      /\ rq[r].calls = <<ChatCall(rq[r].question)>>

\* C9: of the passages a search returned, those scoring exactly the
\* partition's threshold are in the evidence and those scoring below it are
\* not, for the company search and for the standards search.
C9_InclusiveThresholds ==
    \A r \in DOMAIN rq :
      LET req == rq[r]
          within(d, docs) == \E j \in 1..Len(docs) : docs[j] = d
      IN
        /\ CompanyReturned(req) =>
             \A i \in 1..Len(req.company_docs_with_scores) :
               LET d == req.company_docs_with_scores[i] IN
                 /\ d.score = score_threshold => within(d, req.company_docs)
                 /\ d.score < score_threshold => ~within(d, req.company_docs)
        /\ StandardsReturned(req) =>
             \A i \in 1..Len(req.standards_docs_with_scores) :
               LET d == req.standards_docs_with_scores[i] IN
                 /\ d.score = fallback_threshold => within(d, req.standards_docs)
                 /\ d.score < fallback_threshold => ~within(d, req.standards_docs)

\* a company search returning one passage at the threshold and one just
\* below it: the first is the whole evidence
C9_Witness ==
    \E r \in DOMAIN rq :
      /\ Len(rq[r].company_docs_with_scores) = 2
      /\ rq[r].company_docs_with_scores[1].score = score_threshold
      /\ rq[r].company_docs_with_scores[2].score = score_threshold - 1
      /\ rq[r].company_docs = <<rq[r].company_docs_with_scores[1]>>

\* C10: when a returned company passage reaches the threshold, the evidence
\* is the returned passages that reach it, as many and in the order returned
\* (descending score), and the routing labels the source "Company Policy".
C10_AcceptPrimary ==
    \A r \in DOMAIN rq :
      LET req == rq[r]
          passing == { i \in 1..Len(req.company_docs_with_scores) :
                         req.company_docs_with_scores[i].score >= score_threshold }
      IN (CompanyReturned(req) /\ CompanyEvidence(req)) =>
           /\ Len(req.company_docs) = Cardinality(passing)
           /\ { req.company_docs[j] : j \in 1..Len(req.company_docs) }
                = { req.company_docs_with_scores[i] : i \in passing }
           /\ \A j \in 1..(Len(req.company_docs) - 1) :
                req.company_docs[j].score >= req.company_docs[j + 1].score
           /\ req.hit_type = "company"
           /\ req.pc = "rag_invoke" => req.source = "Company Policy"
           /\ req.standards_docs = <<>>

\* two passages accepted out of the company search, waiting for the answer
C10_Witness ==
    \E r \in DOMAIN rq :
      /\ rq[r].pc = "rag_invoke"
      /\ Len(rq[r].company_docs) = 2
      /\ rq[r].company_docs[1].score > rq[r].company_docs[2].score
      /\ rq[r].source = "Company Policy"

\* C11: when no returned company passage reaches the primary threshold and
\* a returned standards passage reaches the fallback threshold, the evidence
\* is the returned standards passages that reach it, as many and in the order
\* returned; no company passage is in the evidence or in the context, and
\* the routing labels the source "General Standards".
C11_AcceptFallback ==
    \A r \in DOMAIN rq :
      LET req == rq[r]
          passing == { i \in 1..Len(req.standards_docs_with_scores) :
                         req.standards_docs_with_scores[i].score >= fallback_threshold }
      IN (StandardsReturned(req) /\ ~CompanyEvidence(req) /\ StandardsEvidence(req)) =>
           /\ Len(req.standards_docs) = Cardinality(passing)
           /\ { req.standards_docs[j] : j \in 1..Len(req.standards_docs) }
                = { req.standards_docs_with_scores[i] : i \in passing }
           /\ \A j \in 1..(Len(req.standards_docs) - 1) :
                req.standards_docs[j].score >= req.standards_docs[j + 1].score
           /\ req.company_docs = <<>>
           /\ \A i \in 1..Len(req.company_docs_with_scores) :
                /\ \A j \in 1..Len(req.standards_docs) :
                     req.standards_docs[j] # req.company_docs_with_scores[i]
                /\ ~Contains(req.context, req.company_docs_with_scores[i].page_content)
           /\ req.hit_type = "standards"
           /\ req.pc = "rag_invoke" => req.source = "General Standards"

\* a fallback hit after a company search that returned a low-scoring passage,
\* the standards search returning one passing and one failing passage
C11_Witness ==
    \E r \in DOMAIN rq :
      /\ rq[r].pc = "rag_invoke"
      /\ rq[r].source = "General Standards"
      /\ rq[r].company_docs_with_scores # <<>>
      /\ Len(rq[r].standards_docs_with_scores) = 2
      /\ rq[r].standards_docs = <<rq[r].standards_docs_with_scores[1]>>

\* C12: when neither search returned a passage reaching its threshold, the
\* evidence and the context are empty, the hit type is "none", and the
\* response has the empty source whatever the synthesizer answered.
C12_NoEvidence ==
    \A r \in DOMAIN rq :
      LET req == rq[r] IN
        (CompanyReturned(req) /\ StandardsReturned(req)
           /\ ~CompanyEvidence(req) /\ ~StandardsEvidence(req)) =>
          /\ req.company_docs = <<>>
          /\ req.standards_docs = <<>>
          /\ req.context = <<>>
          /\ req.hit_type = "none"
          /\ req.source = ""
          /\ Responded(req) => req.response_source = ""

\* both searches returned only low-scoring passages and the synthesizer
\* answered without the refusal phrase
C12_Witness ==
    \E r \in DOMAIN rq :
      /\ Responded(rq[r])
      /\ rq[r].company_docs_with_scores # <<>>
      /\ rq[r].standards_docs_with_scores # <<>>
      /\ rq[r].hit_type = "none"
      /\ ~Contains(rq[r].answer, REFUSAL_PHRASE)
      /\ rq[r].response_source = ""

\* the synthesizer call of the request was made and did not return
SynthesizerFailed(req) ==
    /\ req.calls # <<>>
    /\ req.calls[Len(req.calls)].fn = "llm"
    /\ "llm_time" \notin req.attrs

\* C13: a request whose synthesizer call failed, in CHAT or in RAG mode, has
\* ended as a server error: it carries no answer and no source, and it is
\* not a response.
C13_SynthesizerFailureSurfaces ==
    \A r \in DOMAIN rq :
      SynthesizerFailed(rq[r]) =>
        /\ rq[r].status = 500
        /\ rq[r].pc = "done"
        /\ rq[r].answer = <<>>
        /\ rq[r].response_source = ""
        /\ ~Responded(rq[r])

\* a RAG call failing after a company hit
C13_Witness ==
    \E r \in DOMAIN rq :
      /\ SynthesizerFailed(rq[r])
      /\ rq[r].calls[Len(rq[r].calls)].target = "rag"
      /\ rq[r].hit_type = "company"

\* C14: the calls of a request are at most two searches followed by at most
\* one synthesizer call; no search follows the synthesizer call and neither
\* partition is searched twice.
C14_LinearCallSequence ==
    \A r \in DOMAIN rq :
      LET calls == rq[r].calls
          times(namespace) ==
            Cardinality({ i \in 1..Len(calls) :
                            calls[i].fn = "search" /\ calls[i].target = namespace })
      IN /\ Len(Searches(rq[r])) <= 2
         /\ Len(LlmCalls(rq[r])) <= 1
         /\ \A i \in 1..Len(calls) : \A j \in (i + 1)..Len(calls) :
              calls[i].fn = "llm" => calls[j].fn # "search"
         /\ times(COMPANY_NAMESPACE) <= 1
         /\ times(STANDARDS_NAMESPACE) <= 1
         /\ \A i \in 1..Len(calls) :
              calls[i].fn = "search" =>
                calls[i].target \in {COMPANY_NAMESPACE, STANDARDS_NAMESPACE}

\* a request that made both searches and then the synthesizer call
C14_Witness ==
    \E r \in DOMAIN rq :
      /\ Len(rq[r].calls) = 3
      /\ Len(Searches(rq[r])) = 2
      /\ rq[r].calls[3].fn = "llm"

\* C17: a RAG call made with empty evidence passes the context variable with
\* the empty string, and a request that ended with no evidence has made that
\* call.
C17_EmptyEvidenceEmptyContext ==
    \A r \in DOMAIN rq :
      LET req == rq[r] IN
        /\ \A i \in 1..Len(req.calls) :
             (req.calls[i].target = "rag"
                /\ req.company_docs = <<>> /\ req.standards_docs = <<>>) =>
               /\ req.calls[i].fn = "llm"
               /\ req.calls[i].has_context
               /\ req.calls[i].context = <<>>
        /\ (req.hit_type = "none" /\ req.pc \in {"returned", "done"}) =>
             \E i \in 1..Len(req.calls) : req.calls[i].target = "rag"

\* the RAG call of a request with no evidence has returned
C17_Witness ==
    \E r \in DOMAIN rq :
      /\ rq[r].hit_type = "none"
      /\ rq[r].status = 200
      /\ rq[r].calls[Len(rq[r].calls)] = RagCall(rq[r].question, <<>>)

\* the evidence of a request: the accepted company passages, else the
\* accepted standards passages
Evidence(req) ==
    IF req.company_docs # <<>> THEN req.company_docs ELSE req.standards_docs

\* where the i-th text starts in the texts joined with two-character gaps
RECURSIVE Offset(_, _)
Offset(texts, i) ==
    IF i = 1 THEN 0 ELSE Offset(texts, i - 1) + Len(texts[i - 1]) + 2

\* ctx is the texts in their order with two newlines between neighbours
IsJoined(ctx, texts) ==
    IF texts = <<>> THEN ctx = <<>>
    ELSE /\ Len(ctx) = Offset(texts, Len(texts)) + Len(texts[Len(texts)])
         /\ \A i \in 1..Len(texts) :
              SubSeq(ctx, Offset(texts, i) + 1, Offset(texts, i) + Len(texts[i]))
                = texts[i]
         /\ \A i \in 1..(Len(texts) - 1) :
              /\ ctx[Offset(texts, i) + Len(texts[i]) + 1] = "\n"
              /\ ctx[Offset(texts, i) + Len(texts[i]) + 2] = "\n"

\* C18: once the routing has ended, the context is the texts of the evidence
\* in the order of the filter, joined by a double newline; the recorded
\* context_length is the length of that string, and the RAG call passes it.
C18_ContextAssembly ==
    \A r \in DOMAIN rq :
      LET req == rq[r]
          texts == [i \in 1..Len(Evidence(req)) |-> Evidence(req)[i].page_content]
      IN "context_length" \in req.attrs =>
           /\ IsJoined(req.context, texts)
           /\ req.context_length = Len(req.context)
           /\ \A i \in 1..Len(req.calls) :
                req.calls[i].target = "rag" =>
                  req.calls[i].has_context /\ req.calls[i].context = req.context

\* a RAG call made with a context of two different texts
C18_Witness ==
    \E r \in DOMAIN rq :
      /\ Len(Evidence(rq[r])) = 2
      /\ Evidence(rq[r])[1].page_content # Evidence(rq[r])[2].page_content
      /\ rq[r].context_length = Len(rq[r].context)
      /\ rq[r].status = 200
      /\ rq[r].calls[Len(rq[r].calls)].context = rq[r].context

\* C19: the prompt of every RAG call contains the phrase the post-check
\* scans the answer for, so that the instruction given to the synthesizer
\* and the post-check name the same string.
C19_PromptCarriesRefusalPhrase ==
    \A r \in DOMAIN rq :
      \A i \in 1..Len(rq[r].calls) :
        rq[r].calls[i].target = "rag" =>
          Contains(FormatRagPrompt(rq[r].calls[i].context, rq[r].calls[i].question),
                   REFUSAL_PHRASE)

(***************************************************************************)
(* Properties of the server.                                               *)
(***************************************************************************)
\* the handling of the request has ended, with a response or an exception
Finished(req) == req.pc \in {"returned", "done"}

\* what the pipeline decided for the request and what it answered
RoutingDecision(req) ==
    [ hit_type |-> req.hit_type,
      company_docs |-> req.company_docs,
      standards_docs |-> req.standards_docs,
      context |-> req.context,
      source |-> req.source,
      status |-> req.status,
      answer |-> req.answer,
      response_source |-> req.response_source ]

\* C15: with a deterministic provider and synthesizer, two requests with the
\* same question end with the same routing decision (accepted partition,
\* evidence, context, source label) and the same response, whatever other
\* requests were handled before, between or during them.
C15_SameQuestionSameDecision ==
    \A r1, r2 \in DOMAIN rq :
      (/\ rq[r1].question = rq[r2].question
       /\ Finished(rq[r1])
       /\ Finished(rq[r2]))
      => RoutingDecision(rq[r1]) = RoutingDecision(rq[r2])

\* two answered requests with the same substantive question, and a request
\* with another question and another retrieval score logged between them
C15_Witness ==
    \E r1, r2, r3 \in DOMAIN rq :
      /\ r1 # r2
      /\ rq[r1].question = rq[r2].question
      /\ rq[r3].question # rq[r1].question
      /\ \A r \in {r1, r2, r3} : rq[r].pc = "done" /\ RagResponded(rq[r])
      /\ rq[r3].retrieval_score # rq[r1].retrieval_score
      /\ metrics.scores = << rq[r1].retrieval_score, rq[r3].retrieval_score,
                             rq[r2].retrieval_score >>
      /\ RoutingDecision(rq[r1]) = RoutingDecision(rq[r2])

\* the /chat requests whose handling has ended, with a response or not
Completed == { r \in DOMAIN rq : rq[r].path = "/chat" /\ rq[r].pc = "done" }

\* the /chat requests answered with a response that the middleware returned
Answered == { r \in Completed : rq[r].status = 200 }

\* the sum of the three hit counters
Hits == metrics.hits_company + metrics.hits_standards + metrics.hits_none

\* C16 as stated: total holds one entry for every completed /chat request,
\* and the hit counters sum to the number of completed substantive requests.
C16_OneEntryPerCompletedRequest ==
    /\ Len(metrics.total) = Cardinality(Completed)
    /\ Hits = Cardinality({ r \in Completed : ~NormalisesToPhrase(rq[r].question) })

\* C16: under every interleaving, total holds one entry for every /chat
\* request that was answered with a response, and the hit counters sum to
\* the number of answered substantive requests; a request whose handler
\* raised leaves no entry.
C16_NoLostMetricsUpdate ==
    /\ Len(metrics.total) = Cardinality(Answered)
    /\ Hits = Cardinality({ r \in Answered : ~NormalisesToPhrase(rq[r].question) })
    /\ \A r \in Completed \ Answered : rq[r].status = 500

\* every request completed: a conversational one and one that found nothing
\* answered, and one whose handler raised
C16_Witness ==
    /\ Completed = DOMAIN rq
    /\ Cardinality(Answered) = NumRequests - 1
    /\ Len(metrics.total) = NumRequests - 1
    /\ metrics.hits_none = 1
    /\ \E r \in Answered : NormalisesToPhrase(rq[r].question)

\* s is the beginning of t
IsPrefix(s, t) == Len(s) <= Len(t) /\ \A i \in 1..Len(s) : s[i] = t[i]

\* C20: after startup every step leaves each metrics list as it was or with
\* new entries at its end, the earlier entries unchanged, and no hit counter
\* decreases.
C20_MetricsAppendOnly ==
    [][ /\ IsPrefix(metrics.total, metrics'.total)
        /\ IsPrefix(metrics.vdb1, metrics'.vdb1)
        /\ IsPrefix(metrics.vdb2, metrics'.vdb2)
        /\ IsPrefix(metrics.llm, metrics'.llm)
        /\ IsPrefix(metrics.scores, metrics'.scores)
        /\ IsPrefix(metrics.doc_counts, metrics'.doc_counts)
        /\ IsPrefix(metrics.context_lengths, metrics'.context_lengths)
        /\ metrics.hits_company <= metrics'.hits_company
        /\ metrics.hits_standards <= metrics'.hits_standards
        /\ metrics.hits_none <= metrics'.hits_none ]_vars

\* the metrics of several logged requests: two different retrieval scores,
\* document counts and context lengths, a request that found evidence and
\* one that found nothing counted
C20_Witness ==
    /\ Len(metrics.total) = NumRequests
    /\ Len(metrics.scores) >= 2
    /\ metrics.scores[1] # metrics.scores[2]
    /\ metrics.doc_counts[1] # metrics.doc_counts[2]
    /\ metrics.context_lengths[1] # metrics.context_lengths[2]
    /\ metrics.hits_company + metrics.hits_standards >= 1
    /\ metrics.hits_none >= 1

(***************************************************************************)
(* Properties of the whole request.                                        *)
(***************************************************************************)
\* the terminal routing outcome the returned passages call for, named by
\* its hit type: ACCEPT_PRIMARY, ACCEPT_FALLBACK or NO_EVIDENCE
TerminalOutcome(req) ==
    IF CompanyEvidence(req) THEN "company"
    ELSE IF StandardsEvidence(req) THEN "standards"
    ELSE "none"

\* the request has its response, by way of one routing outcome whose hit
\* type it recorded
RespondedWithOutcome(req) ==
    /\ req.pc = "done"
    /\ RagResponded(req)
    /\ "hit_type" \in req.attrs
    /\ req.hit_type = TerminalOutcome(req)
    /\ req.hit_type = "company" => ~StandardsReturned(req)
    /\ req.hit_type # "company" => StandardsReturned(req)

\* C21: a request classified substantive eventually has its response, having
\* recorded the hit type of the one routing outcome its passages call for,
\* unless a call to the provider or the synthesizer raised; and a recorded
\* hit type is always that of the outcome.
C21_SubstantiveReachesOutcome ==
    /\ [](\A r \in DOMAIN rq :
            "hit_type" \in rq[r].attrs => rq[r].hit_type = TerminalOutcome(rq[r]))
    /\ \A r \in 1..1 :
         (rq[r].pc = "search_company")
           ~> (rq[r].status = 500 \/ RespondedWithOutcome(rq[r]))

\* a substantive request answered after the fallback outcome, the response
\* past the middleware
C21_Witness ==
    \E r \in DOMAIN rq :
      /\ RespondedWithOutcome(rq[r])
      /\ rq[r].hit_type = "standards"
      /\ ~CompanyEvidence(rq[r])
      /\ Len(rq[r].calls) = 3
      /\ Len(metrics.total) = 1

\* C22: a request that returned a response made exactly one synthesizer
\* call: in CHAT mode, with the question alone, if the normalised question is
\* a listed phrase, and in RAG mode, with the context and the question,
\* otherwise; the question passed is the raw one.
C22_OneSynthesizerCall ==
    \A r \in DOMAIN rq :
      LET req == rq[r] IN
        Responded(req) =>
          /\ Len(LlmCalls(req)) = 1
          /\ LlmCalls(req)[1].question = req.question
          /\ req.lowered_question \in conversational_phrases <=>
               (LlmCalls(req)[1].target = "chat" /\ ~LlmCalls(req)[1].has_context)
          /\ req.lowered_question \notin conversational_phrases <=>
               (/\ LlmCalls(req)[1].target = "rag"
                /\ LlmCalls(req)[1].has_context
                /\ LlmCalls(req)[1].context = req.context)

\* a substantive question that its normalisation changes, answered in RAG
\* mode with the question as it was sent
C22_Witness ==
    \E r \in DOMAIN rq :
      /\ Responded(rq[r])
      /\ rq[r].question # Strip(Lower(rq[r].question))
      /\ LlmCalls(rq[r]) = <<RagCall(rq[r].question, rq[r].context)>>
      /\ Len(rq[r].calls) = 3

\* the request-state values the routing recorded for the middleware
RoutingStats(req) ==
    [ hit_type |-> req.hit_type,
      retrieval_score |-> req.retrieval_score,
      doc_count |-> req.doc_count,
      context_length |-> req.context_length,
      recorded |-> req.attrs \cap {"hit_type", "retrieval_score", "doc_count",
                                    "context_length"} ]

\* the hit counter of metrics m that counts hit_type
HitCounter(m, hit_type) ==
    IF hit_type = "company" THEN m.hits_company
    ELSE IF hit_type = "standards" THEN m.hits_standards
    ELSE m.hits_none

\* C23: the step that receives the RAG answer and post-checks it returns
\* the synthesizer's text as the answer, returns the routing's source label
\* or the empty one, and leaves the recorded hit_type, retrieval_score,
\* doc_count and context_length as the routing set them; the middleware then
\* logs those values and counts the hit under the recorded hit_type, whatever
\* source label the response carries.
C23_PostCheckChangesSourceOnly ==
    [][ \A r \in DOMAIN rq :
          /\ (rq[r].pc = "rag_invoke" /\ rq'[r].pc = "returned") =>
               /\ rq'[r].answer
                    = services'[RagCall(rq[r].question, rq[r].context)].content
               /\ rq'[r].response_source \in {rq[r].source, ""}
               /\ RoutingStats(rq'[r]) = RoutingStats(rq[r])
               /\ rq'[r].context = rq[r].context
               /\ metrics' = metrics
          /\ (rq[r].pc = "returned" /\ rq'[r].pc = "done"
                /\ "hit_type" \in rq[r].attrs) =>
               /\ metrics'.scores = Append(metrics.scores, rq[r].retrieval_score)
               /\ metrics'.doc_counts = Append(metrics.doc_counts, rq[r].doc_count)
               /\ metrics'.context_lengths
                    = Append(metrics.context_lengths, rq[r].context_length)
               /\ HitCounter(metrics', rq[r].hit_type)
                    = HitCounter(metrics, rq[r].hit_type) + 1
               /\ rq'[r].answer = rq[r].answer
               /\ rq'[r].response_source = rq[r].response_source ]_vars

\* a request counted as a company hit whose response carries the refusal
\* phrase and the empty source
C23_Witness ==
    \E r \in DOMAIN rq :
      /\ rq[r].pc = "done"
      /\ rq[r].hit_type = "company"
      /\ rq[r].company_docs # <<>>
      /\ Contains(rq[r].answer, REFUSAL_PHRASE)
      /\ rq[r].response_source = ""
      /\ metrics.hits_company = 1
      /\ metrics.hits_none = 0
      /\ metrics.scores = <<rq[r].retrieval_score>>
      /\ metrics.doc_counts = <<1>>

\* C24: in every state the metrics lists are aligned: scores, doc_counts,
\* context_lengths and vdb1 have one entry for each counted hit or miss,
\* vdb2 one for each counted standards hit or miss, and vdb2, vdb1, llm and
\* total are of non-decreasing length in that order.
C24_MetricsAligned ==
    /\ Len(metrics.scores) = Hits
    /\ Len(metrics.doc_counts) = Hits
    /\ Len(metrics.context_lengths) = Hits
    /\ Len(metrics.vdb1) = Hits
    /\ Len(metrics.vdb2) = metrics.hits_standards + metrics.hits_none
    /\ Len(metrics.vdb2) <= Len(metrics.vdb1)
    /\ Len(metrics.vdb1) <= Len(metrics.llm)
    /\ Len(metrics.llm) <= Len(metrics.total)

\* the metrics after a greeting, a company hit and a request that went on
\* to the standards search and found nothing
C24_Witness ==
    /\ Len(metrics.vdb2) = 1
    /\ Len(metrics.vdb1) = 2
    /\ Len(metrics.llm) = 3
    /\ Len(metrics.scores) = 2
    /\ metrics.hits_company = 1
    /\ metrics.hits_none = 1
    /\ Len(metrics.total) = 3

\* the passages are in descending order of score
Descending(docs_with_scores) ==
    \A i \in 1..(Len(docs_with_scores) - 1) :
        docs_with_scores[i].score >= docs_with_scores[i + 1].score

\* C25: on a hit the recorded retrieval_score is the score of the first
\* passage the accepted partition's search returned, and the recorded
\* doc_count is the number of returned passages reaching the partition's
\* threshold, between 1 and k; if the search returned its passages in
\* descending order of score, the retrieval_score is the highest score and
\* reaches the threshold.  On NO_EVIDENCE both are 0.
C25_RetrievalScoreAndDocCount ==
    \A r \in DOMAIN rq :
      LET req == rq[r]
          company == req.hit_type = "company"
          returned == IF company THEN req.company_docs_with_scores
                      ELSE req.standards_docs_with_scores
          threshold == IF company THEN score_threshold ELSE fallback_threshold
          accepted == { i \in 1..Len(returned) : returned[i].score >= threshold }
      IN "hit_type" \in req.attrs =>
           IF req.hit_type = "none"
           THEN req.retrieval_score = 0 /\ req.doc_count = 0
           ELSE /\ req.retrieval_score = returned[1].score
                /\ req.doc_count = Cardinality(accepted)
                /\ req.doc_count = Len(Evidence(req))
                /\ req.doc_count \in 1..4
                /\ Descending(returned) =>
                     /\ req.retrieval_score >= threshold
                     /\ \A i \in accepted : returned[i].score <= req.retrieval_score

\* a company hit whose search returned four passages with the lowest first:
\* the recorded score is below the threshold and below every accepted score,
\* and it is the one logged
C25_Witness ==
    \E r \in DOMAIN rq :
      /\ rq[r].pc = "done"
      /\ rq[r].hit_type = "company"
      /\ Len(rq[r].company_docs_with_scores) = 4
      /\ rq[r].doc_count = 3
      /\ rq[r].retrieval_score < score_threshold
      /\ rq[r].retrieval_score < rq[r].company_docs[1].score
      /\ metrics.scores = <<rq[r].retrieval_score>>
      /\ metrics.doc_counts = <<3>>

\* the metrics entries that only a substantive request adds to
RetrievalMetrics(m) ==
    [ vdb1 |-> m.vdb1,
      vdb2 |-> m.vdb2,
      scores |-> m.scores,
      doc_counts |-> m.doc_counts,
      context_lengths |-> m.context_lengths,
      hits_company |-> m.hits_company,
      hits_standards |-> m.hits_standards,
      hits_none |-> m.hits_none ]

\* C26: no step of a request to a path other than /chat changes the
\* metrics; a step of a conversational /chat request leaves vdb1, vdb2,
\* scores, doc_counts, context_lengths and the three hit counters unchanged,
\* and when the middleware logs its response it appends one entry to total
\* and the request's llm_time to llm.
C26_MetricsFrame ==
    [][ \A r \in DOMAIN rq :
          /\ rq[r].path # "/chat" => metrics' = metrics
          /\ (rq[r].path = "/chat" /\ NormalisesToPhrase(rq[r].question)) =>
               /\ RetrievalMetrics(metrics') = RetrievalMetrics(metrics)
               /\ IF rq[r].pc = "returned" /\ rq'[r].pc = "done"
                  THEN /\ Len(metrics'.total) = Len(metrics.total) + 1
                       /\ IsPrefix(metrics.total, metrics'.total)
                       /\ metrics'.llm = Append(metrics.llm, rq[r].llm_time)
                  ELSE metrics' = metrics ]_vars

\* a greeting answered and logged: one entry in total and in llm, nothing
\* in the retrieval metrics
C26_Witness ==
    \E r \in DOMAIN rq :
      /\ rq[r].pc = "done"
      /\ rq[r].status = 200
      /\ NormalisesToPhrase(rq[r].question)
      /\ Len(metrics.total) = 1
      /\ metrics.llm = <<rq[r].llm_time>>
      /\ RetrievalMetrics(metrics) = RetrievalMetrics(startup_event)

====
